---- MODULE Spec2Model ----
(***************************************************************************)
(* Verification model of the distributed key-value storage node            *)
(* (rust_p2p_node): the connection pool (dht/connection), the local        *)
(* storage helpers (dht/storage.rs), the replication and lookup loops      *)
(* (dht/replication.rs, dht/lookup.rs, dht/rpc/utils.rs) and the metrics   *)
(* counters (dht/metrics).                                                 *)
(*                                                                         *)
(* Specifications of the module:                                           *)
(*   Spec      the ConnectionPool used by concurrent tasks                 *)
(*   SoloSpec  the ConnectionPool used by one task                         *)
(*   RpcSpec   the ConnectionPool under requests cut off by a timeout      *)
(*   FairSpec  Spec with the scheduling fairness of the tokio runtime      *)
(*   DhtSpec   three DhtNodes running store and find_value                 *)
(*   SweepSpec DhtSpec on one key with the expiry sweep of the maintenance *)
(*   KbSpec    one KBucket under update_peer                               *)
(*   MetricsSpec  concurrent tasks recording attempts on one DhtMetrics    *)
(*   PingSpec  send_rpc(addr, Ping) over the ConnectionPool                *)
(*   HealthSpec  the health check of the maintenance                       *)
(*   TableSpec the RoutingTable of one node under add_peer                 *)
(*   ReplSpec  replicate_to_peers_store called with any list of peers      *)
(*   AppSpec   main and the task of DhtApp::run (main.rs, app.rs)          *)
(***************************************************************************)
EXTENDS Integers, Sequences, FiniteSets, TLC

(***************************************************************************)
(* Bounds of the model                                                     *)
(***************************************************************************)
\* total number of get_connection calls started in one behaviour
MaxCalls == 4
\* the clock runs from 0 to MaxTime (seconds)
MaxTime == 1

(***************************************************************************)
(* Configuration of the pool under analysis                                *)
(***************************************************************************)
\* ConnectionPool::new(max_connections_per_peer, _)
MaxConnectionsPerPeer == 2
\* ConnectionPool::new(_, max_idle_time), in clock units
MaxIdleTime == 1

\* client tasks that call get_connection concurrently
Tasks == {"t1", "t2", "t3"}
\* X and Y are listening peers, Z is not reachable
Addrs == {"X", "Y", "Z"}
Reachable == {"X", "Y"}
NoTask == "none"
NoAddr == "-"
NoStream == 0
NoTime == -1

VARIABLES
  pc,          \* pc[t]: where task t is inside get_connection / with its connection
  target,      \* target[t]: the addr argument of t's current get_connection
  conn,        \* conn[t]: the stream t holds (in a PooledConnection or popped entry)
  idle,        \* ConnectionPool.inner: addr -> Vec<ConnectionEntry>
  mutex,       \* owner of the tokio Mutex around inner, or NoTask
  sem,         \* ConnectionPool.semaphore: permits, FIFO wait queue, granted waiters
  transit,     \* streams moved into a spawned return_connection task
  now,         \* the clock (Instant::now / helpers::now)
  nextStream,  \* number of TcpStreams opened so far
  tainted,     \* streams whose RPC was cut off mid-write or mid-read
  calls,       \* number of get_connection calls started
  popped,      \* popped[t]: last_used of the idle entry t took, or NoTime
  cleaned,     \* streams the cleaner task has closed
  storage,     \* storage[n]: DhtNode.storage, key -> serialized StoredValue
  rt,          \* rt[n]: the peers in DhtNode.routing_table
  metrics,     \* metrics[n]: DhtNode.metrics (DhtMetrics counters)
  op,          \* op[n]: the store / find_value call node n is running or has run
  clock,       \* helpers::now(), unix seconds
  ops,         \* number of store and find_value calls started
  bucket,      \* a KBucket: [peers, max_size]
  peer,        \* the PeerInfo passed to the last update_peer, or NoPeer
  before,      \* the KBucket as the last update_peer found it
  rec,         \* rec[t]: where task t is inside record_*_attempt
  served,      \* streams whose accepting side has answered its one request
  rpc,         \* rpc[t]: the send_rpc(addr, Ping) task t is in or has made
  fails,       \* fails[n][p]: consecutive failed health-check pings of p at n
  seen,        \* seen[n][p]: last_seen of p at n
  hist,        \* hist[n][p]: the outcomes of the pings of p since n last evicted it
  table,       \* a RoutingTable: [self, buckets], and the id last passed to add_peer
  given,       \* given[n]: the peers passed to n's running replicate_to_peers_store
  mainPc,      \* where main is: start, prompt, send, abort, exited
  cliCmd,      \* cli.command: None or Some(command)
  chan,        \* the commands in the mpsc channel, oldest first
  appPc,       \* where the task of DhtApp::run is
  cur,         \* the command DhtApp::run is handling
  carried      \* the commands whose handler has returned, in order

poolVars == <<pc, target, conn, idle, mutex, sem, transit, now,
              nextStream, tainted, calls, popped, cleaned>>

dhtVars == <<storage, rt, metrics, op, clock, ops>>

kbVars == <<bucket, peer, before>>

rpcVars == <<served, rpc>>

healthVars == <<fails, seen, hist>>

appVars == <<mainPc, cliCmd, chan, appPc, cur, carried>>

callVars == <<given, appVars>>

nodeVars == <<kbVars, rec, rpcVars, healthVars, table, callVars>>

vars == <<poolVars, dhtVars, nodeVars>>

(***************************************************************************)
(* tokio::sync::Semaphore: permits are handed to queued waiters in FIFO    *)
(* order; a released permit goes to the head of the queue before it can be *)
(* taken by a new acquire.                                                 *)
(***************************************************************************)
SemNew(n) == [permits |-> n, waitq |-> <<>>, granted |-> {}]

RemoveFromSeq(q, t) == SelectSeq(q, LAMBDA x : x # t)

\* dropping an OwnedSemaphorePermit
SemRelease(s) ==
  IF s.waitq # <<>>
    THEN [s EXCEPT !.waitq = Tail(s.waitq),
                   !.granted = s.granted \cup {Head(s.waitq)}]
    ELSE [s EXCEPT !.permits = s.permits + 1]

\* (mutation of SemCanAcquire: the permit count is compared off by one)
SemCanAcquireOffByOne(s) == s.permits >= 0

\* acquire_owned() polled for the first time: is a permit available at once
SemCanAcquire(s) == s.permits > 0

SemTake(s) == [s EXCEPT !.permits = s.permits - 1]

SemEnqueue(s, t) == [s EXCEPT !.waitq = Append(s.waitq, t)]

\* a granted waiter is polled again and owns its permit
SemResume(s, t) == [s EXCEPT !.granted = s.granted \ {t}]

\* (mutation of SemCancel: the permit already assigned to the dropped waiter
\* is not handed back)
SemCancelLeak(s, t) ==
  [s EXCEPT !.granted = s.granted \ {t}, !.waitq = RemoveFromSeq(s.waitq, t)]

\* the Acquire future of t is dropped before it completed
SemCancel(s, t) ==
  IF t \in s.granted
    THEN SemRelease([s EXCEPT !.granted = s.granted \ {t}])
    ELSE [s EXCEPT !.waitq = RemoveFromSeq(s.waitq, t)]

(***************************************************************************)
(* try_get_healthy_connection: the pop loop                                *)
(***************************************************************************)
IsFresh(entry, time) == time - entry.last_used < MaxIdleTime

\* dead: the streams whose peer_addr() fails at the time of the call
IsHealthy(entry, time, dead) == IsFresh(entry, time) /\ entry.stream \notin dead

\* while let Some(entry) = connections.pop(): entries are taken from the back,
\* unhealthy ones are discarded, the first healthy one stops the loop
RECURSIVE PopHealthy(_, _, _)
PopHealthy(entries, time, dead) ==
  IF entries = <<>>
    THEN [found |-> FALSE, stream |-> NoStream, last_used |-> NoTime,
          rest |-> <<>>]
    ELSE LET last == entries[Len(entries)]
             front == SubSeq(entries, 1, Len(entries) - 1)
         IN IF IsHealthy(last, time, dead)
              THEN [found |-> TRUE, stream |-> last.stream,
                    last_used |-> last.last_used, rest |-> front]
              ELSE PopHealthy(front, time, dead)

StreamsOf(entries) == {entries[i].stream : i \in 1..Len(entries)}
IdleStreams(a) == StreamsOf(idle[a])

HeldBy(t) == pc[t] = "holding"
HeldCount == Cardinality({t \in Tasks : HeldBy(t)})
WaitingForPermit(t) == pc[t] \in {"fast_wait", "slow_wait"}

(***************************************************************************)
(* The DHT nodes: configuration and inputs                                 *)
(***************************************************************************)
\* total number of store / find_value calls started in one behaviour
MaxOps == 2
\* helpers::now() runs from 0 to MaxClock (unix seconds)
MaxClock == 1
\* config.storage.max_entries
MaxEntries == 1
\* config.replication.factor
ReplicationFactor == 2
\* config.storage.default_ttl of create_test_node, seconds
DefaultTtl == 1
\* width of a NodeId in bits
IdBits == 3

\* the DhtNodes of the network, by address
Nodes == {"A", "B", "C"}
\* a remote peer that is not one of the DhtNodes: it may answer anything
Foreign == "F"
PeerAddrs == Nodes \cup {Foreign}
Keys == {"k1", "k2"}
\* the data each node writes with store
ValueOf == [n \in Nodes |-> CASE n = "A" -> "vA" [] n = "B" -> "vB" [] OTHER -> "vC"]
ForeignData == "vF"
\* NodeId::new(seed) of each address and NodeId::new(key) of each key
NodeIdOf == [a \in PeerAddrs |->
               CASE a = "A" -> 1 [] a = "B" -> 2 [] a = "C" -> 3 [] OTHER -> 4]
KeyIdOf == [k \in Keys |-> IF k = "k1" THEN 2 ELSE 5]
\* the add_peer calls the callers make, <<node, peer>> in the order made
Joins == << <<"A", "B">>, <<"C", "B">>, <<"A", "C">>, <<"A", "F">> >>

\* Option<T>: None is {}, Some(x) is {x}
None == {}
Some(x) == {x}

(***************************************************************************)
(* dht/storage.rs                                                          *)
(***************************************************************************)
\* bincode::serialize of a StoredValue: the fields in declaration order, a
\* bool as 0/1, an Option as a tag followed by the payload, a Vec as its
\* length followed by the elements
serialize_value(value) ==
  <<value.data, value.version, value.last_node,
    IF value.is_replica THEN 1 ELSE 0>>
  \o (IF value.expiration = None
        THEN <<0>>
        ELSE <<1, CHOOSE e \in value.expiration : TRUE>>)
  \o <<Len(value.original_nodes)>> \o value.original_nodes

NoValue == [data |-> "", version |-> 0, last_node |-> "", is_replica |-> FALSE,
            expiration |-> None, original_nodes |-> <<>>]

\* bincode::deserialize: Err on a truncated input or an invalid bool / Option
\* tag, trailing bytes are ignored
deserialize_value(data) ==
  IF Len(data) < 6 \/ data[4] \notin {0, 1} \/ data[5] \notin {0, 1}
    THEN [ok |-> FALSE, stored |-> NoValue]
    ELSE LET c == 6 + data[5]
         IN IF Len(data) < c \/ Len(data) < c + data[c]
              THEN [ok |-> FALSE, stored |-> NoValue]
              ELSE [ok |-> TRUE,
                    stored |-> [data |-> data[1],
                                version |-> data[2],
                                last_node |-> data[3],
                                is_replica |-> data[4] = 1,
                                expiration |-> IF data[5] = 1 THEN Some(data[6])
                                                              ELSE None,
                                original_nodes |->
                                  SubSeq(data, c + 1, c + data[c])]]

\* (mutation of create_stored_value: the version is not taken from the clock)
create_stored_value_unversioned(data, addr, is_replica, ttl, time) ==
  [data |-> data,
   version |-> 0,
   last_node |-> addr,
   is_replica |-> is_replica,
   expiration |-> {time + t : t \in ttl},
   original_nodes |-> IF is_replica THEN <<>> ELSE <<addr>>]

\* (mutation of create_stored_value: the ttl is not applied)
create_stored_value_no_ttl(data, addr, is_replica, ttl, time) ==
  [data |-> data,
   version |-> time,
   last_node |-> addr,
   is_replica |-> is_replica,
   expiration |-> None,
   original_nodes |-> IF is_replica THEN <<>> ELSE <<addr>>]

\* create_stored_value(data, addr, is_replica, ttl) when now() returns time
create_stored_value(data, addr, is_replica, ttl, time) ==
  [data |-> data,
   version |-> time,
   last_node |-> addr,
   is_replica |-> is_replica,
   expiration |-> {time + t : t \in ttl},
   original_nodes |-> IF is_replica THEN <<>> ELSE <<addr>>]

\* (mutation of is_valid: a value whose expiration equals the current time
\* still counts as valid)
is_valid_inclusive(stored, current_time) ==
  \A e \in stored.expiration : e >= current_time

\* StoredValue::is_valid
is_valid(stored, current_time) ==
  \A e \in stored.expiration : e > current_time

\* a concurrent map of key -> bytes as a function on the keys present
MapInsert(m, k, v) == [x \in (DOMAIN m) \cup {k} |-> IF x = k THEN v ELSE m[x]]
MapRemove(m, k) == [x \in (DOMAIN m) \ {k} |-> m[x]]
EmptyMap == [x \in {} |-> <<>>]

\* (mutation of find_in_local_storage: the value is pushed without the
\* validity test)
find_in_local_storage_unchecked(st, key, time) ==
  IF key \notin DOMAIN st
    THEN [found |-> <<>>, st |-> st]
    ELSE LET r == deserialize_value(st[key])
         IN IF ~r.ok
              THEN [found |-> <<>>, st |-> st]
              ELSE [found |-> <<r.stored>>, st |-> st]

\* find_in_local_storage(node, found_values, key): the values it pushes and
\* the storage it leaves
find_in_local_storage(st, key, time) ==
  IF key \notin DOMAIN st
    THEN [found |-> <<>>, st |-> st]
    ELSE LET r == deserialize_value(st[key])
         IN IF ~r.ok
              THEN [found |-> <<>>, st |-> st]
              ELSE IF is_valid(r.stored, time)
                     THEN [found |-> <<r.stored>>, st |-> st]
                     ELSE [found |-> <<>>, st |-> MapRemove(st, key)]

(***************************************************************************)
(* Storage::put, NodeId distance and RoutingTable::closest_peers           *)
(***************************************************************************)
VersionOf(bytes) == deserialize_value(bytes).stored.version
ExpiredAt(bytes, time) ==
  LET r == deserialize_value(bytes) IN r.ok /\ ~is_valid(r.stored, time)

\* the entry eviction removes: an expired one first, else the oldest version
Victim(st, time) ==
  LET expired == {k \in DOMAIN st : ExpiredAt(st[k], time)}
      pool == IF expired # {} THEN expired ELSE DOMAIN st
  IN CHOOSE k \in pool : \A x \in pool : VersionOf(st[k]) <= VersionOf(st[x])

\* (variant of put: a new key is inserted whatever the size)
put_unbounded(st, key, bytes, policy, time) ==
  [ok |-> TRUE, st |-> MapInsert(st, key, bytes)]

\* put(key, serialized_value): a present key is replaced; a new key is
\* inserted while size < max_entries; at max_entries the put is rejected
\* (StorageFull) or makes room by eviction, as the policy in force decides
put(st, key, bytes, policy, time) ==
  IF key \in DOMAIN st \/ Cardinality(DOMAIN st) < MaxEntries
    THEN [ok |-> TRUE, st |-> MapInsert(st, key, bytes)]
    ELSE IF policy = "reject" \/ DOMAIN st = {}
      THEN [ok |-> FALSE, st |-> st]
      ELSE [ok |-> TRUE,
            st |-> MapInsert(MapRemove(st, Victim(st, time)), key, bytes)]

Policies == {"reject", "evict"}

RECURSIVE Xor(_, _, _)
\* bitwise XOR of two ids of the given width
Xor(a, b, bits) ==
  IF bits = 0 THEN 0
  ELSE (IF a % 2 = b % 2 THEN 0 ELSE 1) + 2 * Xor(a \div 2, b \div 2, bits - 1)

distance(a, b) == Xor(a, b, IdBits)

RECURSIVE SortByDistance(_, _)
\* the peers ordered by XOR distance to target_id, ties by id
SortByDistance(peers, target_id) ==
  IF peers = {} THEN <<>>
  ELSE LET p == CHOOSE x \in peers : \A y \in peers :
                  \/ distance(NodeIdOf[x], target_id) < distance(NodeIdOf[y], target_id)
                  \/ /\ distance(NodeIdOf[x], target_id) = distance(NodeIdOf[y], target_id)
                     /\ NodeIdOf[x] <= NodeIdOf[y]
       IN <<p>> \o SortByDistance(peers \ {p}, target_id)

closest_peers(peers, target_id, count) ==
  LET sorted == SortByDistance(peers, target_id)
  IN SubSeq(sorted, 1, IF Len(sorted) < count THEN Len(sorted) ELSE count)

(***************************************************************************)
(* dht/metrics                                                             *)
(***************************************************************************)
NewMetrics == [store_ops |-> 0, store_success |-> 0, find_value_ops |-> 0,
               find_value_success |-> 0, rpc_requests |-> 0,
               rpc_failures |-> 0, known_peers |-> 0]

\* (mutation of inc_store_ops: the increment is lost)
inc_store_ops_lost(m) == m

\* fetch_add(1, Ordering::Relaxed) on one counter
inc_store_ops(m) == [m EXCEPT !.store_ops = @ + 1]
inc_store_success(m) == [m EXCEPT !.store_success = @ + 1]
inc_find_value_ops(m) == [m EXCEPT !.find_value_ops = @ + 1]
inc_find_value_success(m) == [m EXCEPT !.find_value_success = @ + 1]
inc_rpc_requests(m) == [m EXCEPT !.rpc_requests = @ + 1]
inc_rpc_failures(m) == [m EXCEPT !.rpc_failures = @ + 1]

\* (mutation of record_store_attempt: success is counted for every attempt)
record_store_attempt_always(m, success) ==
  [m EXCEPT !.store_ops = @ + 1, !.store_success = @ + 1]

record_store_attempt(m, success) ==
  [m EXCEPT !.store_ops = @ + 1,
            !.store_success = IF success THEN @ + 1 ELSE @]

\* (mutation of record_find_attempt: success is counted for every attempt)
record_find_attempt_always(m, success) ==
  [m EXCEPT !.find_value_ops = @ + 1, !.find_value_success = @ + 1]

\* (mutation of record_find_attempt: the success is not counted)
record_find_attempt_uncounted(m, success) ==
  [m EXCEPT !.find_value_ops = @ + 1]

record_find_attempt(m, success) ==
  [m EXCEPT !.find_value_ops = @ + 1,
            !.find_value_success = IF success THEN @ + 1 ELSE @]

(***************************************************************************)
(* handle_rpc of a DhtNode, and the answers of the foreign peer            *)
(***************************************************************************)
\* Store(key, value) handled by node r at the given time: the value is
\* wrapped as a replica StoredValue and put; the reply is Pong
handle_store(st, r, key, value, policy, time) ==
  put(st, key,
      serialize_value(create_stored_value(value, r, TRUE, Some(DefaultTtl), time)),
      policy, time).st

\* FindValue(key) handled at the given time: FindValueResponse(Option<bytes>)
handle_find_value(st, key, time) ==
  IF key \in DOMAIN st /\ deserialize_value(st[key]).ok
     /\ is_valid(deserialize_value(st[key]).stored, time)
    THEN Some(st[key])
    ELSE None

\* bytes that are not the encoding of a StoredValue
Garbage == <<ForeignData, 1, Foreign>>

\* what the foreign peer may put into a FindValueResponse at the given time
ForeignValues(time) ==
  {[data |-> ForeignData, version |-> x[1], last_node |-> Foreign,
    is_replica |-> TRUE, expiration |-> x[2], original_nodes |-> <<>>] :
      x \in {<<0, None>>, <<1, None>>, <<1, Some(time)>>}}

ForeignReplies(time) ==
  {None, Some(Garbage)} \cup {Some(serialize_value(v)) : v \in ForeignValues(time)}

(***************************************************************************)
(* The state of the DhtNodes                                               *)
(***************************************************************************)
NoReply == [status |-> "none", value |-> None]

\* op[n] of a node that has made no call yet.  Of a call it keeps the
\* arguments, the local variables (peers still to visit, found_values,
\* successes), the routing table it saw, the peers its Store RPC reached,
\* succeeded with and failed with, the last FindValueResponse, and the result
IdleOp == [kind |-> "none", phase |-> "idle", key |-> "", value |-> "",
           version |-> 0, peers |-> <<>>, found |-> <<>>, successes |-> 0,
           table |-> {}, reached |-> {}, acked |-> {}, failed |-> {},
           reply |-> NoReply,
           ok |-> FALSE, data |-> None]

DhtInit ==
  /\ storage = [n \in Nodes |-> EmptyMap]
  /\ rt = [n \in Nodes |-> {}]
  /\ metrics = [n \in Nodes |-> NewMetrics]
  /\ op = [n \in Nodes |-> IdleOp]
  /\ clock = 0
  /\ ops = 0

(***************************************************************************)
(* dht/kbucket.rs, dht/peer.rs                                             *)
(***************************************************************************)
\* KBucket { max_size } of the buckets built
MaxBucketSize == 2
\* PeerInfo.last_seen runs from 0 to MaxSeen
MaxSeen == 2
\* the NodeIds of the peers offered to a bucket
PeerIds == 1..3
\* create_peer: every PeerInfo of the bucket tests has the same address
PeerAddr == "127.0.0.1:8090"
NoPeer == [id |-> 0, addr |-> NoAddr, last_seen |-> 0]

\* struct PeerInfo
PeerInfo == [id : PeerIds, addr : {PeerAddr}, last_seen : 0..MaxSeen]

\* (mutation of update_peer: the peer is pushed whatever the length)
update_peer_unbounded(b, p) ==
  [b EXCEPT !.peers = Append(SelectSeq(b.peers, LAMBDA q : q.id # p.id), p)]

\* (mutation of update_peer: the entry with the same id is not removed first)
update_peer_no_retain(b, p) ==
  IF Len(b.peers) >= b.max_size
    THEN b
    ELSE [b EXCEPT !.peers = Append(b.peers, p)]

\* (mutation of update_peer: a full bucket drops its first peer for the new one)
update_peer_replace_first(b, p) ==
  LET kept == SelectSeq(b.peers, LAMBDA q : q.id # p.id)
  IN IF Len(kept) >= b.max_size /\ kept # <<>>
       THEN [b EXCEPT !.peers = Append(Tail(kept), p)]
       ELSE IF Len(kept) >= b.max_size
              THEN [b EXCEPT !.peers = kept]
              ELSE [b EXCEPT !.peers = Append(kept, p)]

\* (mutation of update_peer: a peer that is already present is left as it is)
update_peer_keep_existing(b, p) ==
  IF \E i \in 1..Len(b.peers) : b.peers[i].id = p.id
    THEN b
    ELSE IF Len(b.peers) >= b.max_size
           THEN b
           ELSE [b EXCEPT !.peers = Append(b.peers, p)]

\* KBucket::update_peer: retain the other ids, return if full, else push
update_peer(b, p) ==
  LET kept == SelectSeq(b.peers, LAMBDA q : q.id # p.id)
  IN IF Len(kept) >= b.max_size
       THEN [b EXCEPT !.peers = kept]
       ELSE [b EXCEPT !.peers = Append(kept, p)]

\* KBucket::get_peers, len, is_full
get_peers(b) == b.peers
len(b) == Len(b.peers)
is_full(b) == Len(b.peers) >= b.max_size

(***************************************************************************)
(* The state after construction                                            *)
(***************************************************************************)
PoolInit ==
  /\ pc = [t \in Tasks |-> "idle"]
  /\ target = [t \in Tasks |-> NoAddr]
  /\ conn = [t \in Tasks |-> NoStream]
  /\ idle = [a \in Addrs |-> <<>>]
  /\ mutex = NoTask
  /\ sem = SemNew(MaxConnectionsPerPeer)
  /\ transit = {}
  /\ now = 0
  /\ nextStream = 0
  /\ tainted = {}
  /\ calls = 0
  /\ popped = [t \in Tasks |-> NoTime]
  /\ cleaned = {}

\* a task that is not inside record_store_attempt / record_find_attempt
IdleRec == [kind |-> "none", success |-> FALSE, at |-> "idle"]

\* a task that has not called send_rpc
NoRpc == [addr |-> NoAddr, at |-> "none", result |-> "none"]

\* RoutingTable::new: every bucket empty, of capacity k
BucketSize == 2
NoId == -1
NewTable(id) ==
  [self |-> id,
   buckets |-> [i \in 0..(IdBits - 1) |-> [peers |-> <<>>, max_size |-> BucketSize]],
   last |-> NoId]

\* no AppCommand
NoCommand == [kind |-> "none", key |-> ""]

\* KBucket::default()
NodeInit ==
  /\ bucket = [peers |-> <<>>, max_size |-> 0]
  /\ peer = NoPeer
  /\ before = bucket
  /\ rec = [t \in Tasks |-> IdleRec]
  /\ served = {}
  /\ rpc = [t \in Tasks |-> NoRpc]
  /\ fails = [n \in Nodes |-> [p \in PeerAddrs |-> 0]]
  /\ seen = [n \in Nodes |-> [p \in PeerAddrs |-> 0]]
  /\ hist = [n \in Nodes |-> [p \in PeerAddrs |-> <<>>]]
  /\ table = NewTable(NodeIdOf["A"])
  /\ given = [n \in Nodes |-> <<>>]
  /\ mainPc = "start"
  /\ cliCmd = None
  /\ chan = <<>>
  /\ appPc = "unspawned"
  /\ cur = NoCommand
  /\ carried = <<>>

Init == PoolInit /\ DhtInit /\ NodeInit

\* a task calls pool.get_connection(addr) and reaches inner.lock().await
GetConnection(t, a) ==
  /\ pc[t] = "idle"
  /\ calls < MaxCalls
  /\ pc' = [pc EXCEPT ![t] = "lock_wait"]
  /\ target' = [target EXCEPT ![t] = a]
  /\ calls' = calls + 1
  /\ UNCHANGED <<conn, idle, mutex, sem, transit, now, nextStream, tainted>>
  /\ UNCHANGED <<dhtVars, nodeVars, popped, cleaned>>

\* try_get_healthy_connection once the lock is obtained, up to its first
\* suspension: the permit for a popped entry (awaited with the lock held), or,
\* back in get_connection with the lock released, the permit of the slow path.
\* nodelay_ok is the outcome of entry.stream.set_nodelay(true)?
TryGetHealthy(t, dead, nodelay_ok) ==
  /\ pc[t] = "lock_wait"
  /\ mutex = NoTask
  /\ LET r == PopHealthy(idle[target[t]], now, dead)
     IN /\ idle' = [idle EXCEPT ![target[t]] = r.rest]
        /\ IF r.found
             THEN IF ~nodelay_ok
                    THEN /\ pc' = [pc EXCEPT ![t] = "idle"]
                         /\ target' = [target EXCEPT ![t] = NoAddr]
                         /\ UNCHANGED <<sem, conn, mutex>>
                    ELSE IF SemCanAcquire(sem)
                      THEN /\ sem' = SemTake(sem)
                           /\ pc' = [pc EXCEPT ![t] = "holding"]
                           /\ conn' = [conn EXCEPT ![t] = r.stream]
                           /\ UNCHANGED <<mutex, target>>
                      ELSE /\ sem' = SemEnqueue(sem, t)
                           /\ pc' = [pc EXCEPT ![t] = "fast_wait"]
                           /\ conn' = [conn EXCEPT ![t] = r.stream]
                           /\ mutex' = t
                           /\ UNCHANGED target
             ELSE /\ nodelay_ok
                  /\ IF SemCanAcquire(sem)
                       THEN /\ sem' = SemTake(sem)
                            /\ pc' = [pc EXCEPT ![t] = "connecting"]
                       ELSE /\ sem' = SemEnqueue(sem, t)
                            /\ pc' = [pc EXCEPT ![t] = "slow_wait"]
                  /\ UNCHANGED <<conn, mutex, target>>
  /\ UNCHANGED <<transit, now, nextStream, tainted, calls>>
  /\ popped' = [popped EXCEPT ![t] =
                  IF nodelay_ok
                    THEN PopHealthy(idle[target[t]], now, dead).last_used
                    ELSE NoTime]
  /\ UNCHANGED <<dhtVars, nodeVars, cleaned>>

\* a waiter that was handed a permit is polled again
Resume(t) ==
  /\ WaitingForPermit(t)
  /\ t \in sem.granted
  /\ sem' = SemResume(sem, t)
  /\ IF pc[t] = "fast_wait"
       THEN /\ pc' = [pc EXCEPT ![t] = "holding"]
            /\ mutex' = NoTask
       ELSE /\ pc' = [pc EXCEPT ![t] = "connecting"]
            /\ UNCHANGED mutex
  /\ UNCHANGED <<target, conn, idle, transit, now, nextStream, tainted, calls>>
  /\ UNCHANGED <<dhtVars, nodeVars, popped, cleaned>>

\* (mutation of Connect: the error return keeps the permit)
ConnectLeak(t) ==
  /\ pc[t] = "connecting"
  /\ IF target[t] \in Reachable
       THEN /\ nextStream' = nextStream + 1
            /\ conn' = [conn EXCEPT ![t] = nextStream + 1]
            /\ pc' = [pc EXCEPT ![t] = "holding"]
            /\ UNCHANGED target
       ELSE /\ pc' = [pc EXCEPT ![t] = "idle"]
            /\ target' = [target EXCEPT ![t] = NoAddr]
            /\ UNCHANGED <<nextStream, conn>>
  /\ UNCHANGED <<sem, idle, mutex, transit, now, tainted, calls>>
  /\ UNCHANGED <<dhtVars, nodeVars, popped, cleaned>>

\* timeout(5s, TcpStream::connect(addr)) and stream.set_nodelay(true)?: a
\* failure returns Err and drops the permit
Connect(t) ==
  /\ pc[t] = "connecting"
  /\ IF target[t] \in Reachable
       THEN /\ nextStream' = nextStream + 1
            /\ conn' = [conn EXCEPT ![t] = nextStream + 1]
            /\ pc' = [pc EXCEPT ![t] = "holding"]
            /\ UNCHANGED <<sem, target>>
       ELSE /\ sem' = SemRelease(sem)
            /\ pc' = [pc EXCEPT ![t] = "idle"]
            /\ target' = [target EXCEPT ![t] = NoAddr]
            /\ UNCHANGED <<nextStream, conn>>
  /\ UNCHANGED <<idle, mutex, transit, now, tainted, calls>>
  /\ UNCHANGED <<dhtVars, nodeVars, popped, cleaned>>

\* the caller's timeout(.., pool.get_connection(addr)) fires: the future is
\* dropped at whatever await it is suspended on
Cancel(t) ==
  /\ pc[t] \in {"lock_wait", "fast_wait", "slow_wait", "connecting"}
  /\ sem' = CASE pc[t] = "lock_wait" -> sem
              [] pc[t] = "connecting" -> SemRelease(sem)
              [] OTHER -> SemCancel(sem, t)
  /\ mutex' = IF pc[t] = "fast_wait" THEN NoTask ELSE mutex
  /\ conn' = [conn EXCEPT ![t] = NoStream]
  /\ pc' = [pc EXCEPT ![t] = "idle"]
  /\ target' = [target EXCEPT ![t] = NoAddr]
  /\ UNCHANGED <<idle, transit, now, nextStream, tainted, calls>>
  /\ popped' = [popped EXCEPT ![t] = NoTime]
  /\ UNCHANGED <<dhtVars, nodeVars, cleaned>>

\* Drop for PooledConnection: the permit is released at once, the stream is
\* moved into a spawned task that will call return_connection.  clean = FALSE
\* is the drop of a request future cut off by operation_timeout.
DropConnection(t, clean) ==
  /\ pc[t] = "holding"
  /\ sem' = SemRelease(sem)
  /\ transit' = transit \cup {[stream |-> conn[t], addr |-> target[t]]}
  /\ tainted' = IF clean THEN tainted ELSE tainted \cup {conn[t]}
  /\ conn' = [conn EXCEPT ![t] = NoStream]
  /\ pc' = [pc EXCEPT ![t] = "idle"]
  /\ target' = [target EXCEPT ![t] = NoAddr]
  /\ UNCHANGED <<idle, mutex, now, nextStream, calls>>
  /\ popped' = [popped EXCEPT ![t] = NoTime]
  /\ UNCHANGED <<dhtVars, nodeVars, cleaned>>

\* return_connection(addr, stream), run by the spawned task
ReturnConnection(e) ==
  /\ e \in transit
  /\ mutex = NoTask
  /\ idle' = [idle EXCEPT ![e.addr] =
                Append(@, [stream |-> e.stream, last_used |-> now])]
  /\ transit' = transit \ {e}
  /\ UNCHANGED <<pc, target, conn, mutex, sem, now, nextStream, tainted, calls>>
  /\ UNCHANGED <<dhtVars, nodeVars, popped, cleaned>>

\* (mutation of retain_fresh: the kept entries come out in reverse order)
retain_fresh_reversed(entries, time) ==
  LET kept == SelectSeq(entries, LAMBDA en : IsFresh(en, time))
  IN [i \in 1..Len(kept) |-> kept[Len(kept) + 1 - i]]

\* connections.retain(|entry| entry.last_used.elapsed() < max_idle_time)
retain_fresh(entries, time) ==
  SelectSeq(entries, LAMBDA en : IsFresh(en, time))

\* clean_stale_connections, one pass of the cleaner task
CleanStale ==
  /\ mutex = NoTask
  /\ \E a \in Addrs : \E i \in 1..Len(idle[a]) : ~IsFresh(idle[a][i], now)
  /\ idle' = [a \in Addrs |-> retain_fresh(idle[a], now)]
  /\ cleaned' = cleaned \cup UNION { StreamsOf(idle[a]) \
                                      StreamsOf(retain_fresh(idle[a], now)) :
                                    a \in Addrs }
  /\ UNCHANGED <<pc, target, conn, mutex, sem, transit, now, nextStream,
                 tainted, calls>>
  /\ UNCHANGED <<dhtVars, nodeVars, popped>>

Tick ==
  /\ now < MaxTime
  /\ now' = now + 1
  /\ UNCHANGED <<pc, target, conn, idle, mutex, sem, transit,
                 nextStream, tainted, calls>>
  /\ UNCHANGED <<dhtVars, nodeVars, popped, cleaned>>

\* the steps of one client task inside get_connection
TaskStep(t) ==
  \/ \E a \in Addrs : GetConnection(t, a)
  \/ /\ pc[t] = "lock_wait"
     /\ \E dead \in SUBSET IdleStreams(target[t]), ok \in BOOLEAN :
          TryGetHealthy(t, dead, ok)
  \/ Connect(t)
  \/ Cancel(t)

\* the spawned return tasks, the cleaner task and the clock
Background ==
  \/ \E e \in transit : ReturnConnection(e)
  \/ CleanStale
  \/ Tick

\* the pool used by concurrent tasks whose requests run to completion
Next ==
  \/ \E t \in Tasks : TaskStep(t)
  \/ \E t \in Tasks : Resume(t)
  \/ \E t \in Tasks : DropConnection(t, TRUE)
  \/ Background

Spec == Init /\ [][Next]_vars

\* the pool used by a single task, one call after the other (with one task
\* the semaphore never runs out of permits, so no waiter is ever resumed)
SoloNext ==
  \/ TaskStep("t1")
  \/ DropConnection("t1", TRUE)
  \/ Background

SoloSpec == Init /\ [][SoloNext]_vars

\* the pool used by tasks whose requests may be cut off by operation_timeout
RpcNext ==
  \/ \E t \in Tasks : TaskStep(t)
  \/ \E t \in Tasks : Resume(t)
  \/ \E t \in Tasks, clean \in BOOLEAN : DropConnection(t, clean)
  \/ Background

RpcSpec == Init /\ [][RpcNext]_vars

\* Spec under the scheduling of the tokio runtime: some task that can make
\* progress is polled, a spawned return task runs.  Nothing forces a client to
\* call, to drop its connection or to time out.
Progress ==
  \/ \E t \in Tasks : Resume(t)
  \/ \E t \in Tasks : Connect(t)
  \/ \E t \in Tasks :
       /\ pc[t] = "lock_wait"
       /\ \E dead \in SUBSET IdleStreams(target[t]) : TryGetHealthy(t, dead, TRUE)
  \/ \E e \in transit : ReturnConnection(e)

Fairness == WF_vars(Progress)

FairSpec == Init /\ [][Next]_vars /\ Fairness

(***************************************************************************)
(* Claims about the connection pool                                        *)
(***************************************************************************)
PermitsOwned == Cardinality({t \in Tasks : pc[t] \in {"holding", "connecting"}})

NextInLine(t) ==
  \/ t \in sem.granted
  \/ sem.granted = {} /\ sem.waitq # <<>> /\ Head(sem.waitq) = t

C2_WaiterServed ==
  \A t \in Tasks :
    (WaitingForPermit(t) /\ target[t] \in Reachable /\ NextInLine(t)
       /\ PermitsOwned < MaxConnectionsPerPeer)
    ~> (HeldBy(t) \/ pc[t] = "idle")

\* C2 witness: a suspended get_connection has been handed the permit of a
\* dropped connection after every call of the budget was made
C2_Witness ==
  \E t \in Tasks :
    /\ WaitingForPermit(t) /\ target[t] \in Reachable
    /\ t \in sem.granted
    /\ PermitsOwned < MaxConnectionsPerPeer
    /\ calls = MaxCalls

PoolOwns(s, a) ==
  \/ [stream |-> s, addr |-> a] \in transit
  \/ s \in IdleStreams(a)

Quiescent == transit = {} /\ \A t \in Tasks : pc[t] = "idle"

\* C3 (as claimed): on a pool used by one task only, with nothing stale, the
\* second get_connection(X) returns the stream the first one returned (the
\* pool still owns that stream, so no second one is opened), and once both
\* releases have taken effect the idle list of X has one entry, not two.
C3_ReuseAsClaimed ==
  (calls = 2 /\ now = 0) =>
    /\ (HeldBy("t1") /\ target["t1"] = "X" /\ PoolOwns(1, "X")) => conn["t1"] = 1
    /\ Quiescent => Len(idle["X"]) <= 1

\* C4 (as claimed): the cap is per peer: while all held connections are to X,
\* a get_connection to another reachable address is never left waiting for
\* a permit.
C4_PerPeerAsClaimed ==
  \A t \in Tasks :
    (/\ WaitingForPermit(t) /\ target[t] = "Y"
     /\ HeldCount = MaxConnectionsPerPeer
     /\ \A h \in Tasks : pc[h] # "idle" /\ h # t => HeldBy(h) /\ target[h] = "X")
    => FALSE

\* C5 (as claimed): a stream whose request was cut off by operation_timeout is
\* never in the idle list and never held again by a later get_connection.
C5_NoReuseAfterTimeoutAsClaimed ==
  /\ \A a \in Addrs : IdleStreams(a) \cap tainted = {}
  /\ \A t \in Tasks : HeldBy(t) => conn[t] \notin tainted

(***************************************************************************)
(* dht/rpc/utils.rs and DhtNode::send_rpc                                  *)
(***************************************************************************)
\* send_rpc: rpc_requests is incremented first; an error on the way (connect,
\* write, read, decode, or its own deadline) increments rpc_failures.  With
\* outcome "timeout" the caller's timeout() drops the future before it ends.
send_rpc(m, outcome) ==
  IF outcome = "err" THEN inc_rpc_failures(inc_rpc_requests(m))
                     ELSE inc_rpc_requests(m)

\* (mutation of send_store_rpc: an error or a timeout is reported as Ok)
send_store_rpc_swallow(m, outcome) ==
  IF outcome = "ok"
    THEN [ok |-> TRUE, metrics |-> send_rpc(m, outcome)]
    ELSE [ok |-> TRUE, metrics |-> inc_rpc_failures(send_rpc(m, outcome))]

\* send_store_rpc: Ok(Ok(_)) => Ok(()), Ok(Err(e)) and Err(_) => Err after
\* inc_rpc_failures
send_store_rpc(m, outcome) ==
  IF outcome = "ok"
    THEN [ok |-> TRUE, metrics |-> send_rpc(m, outcome)]
    ELSE [ok |-> FALSE, metrics |-> inc_rpc_failures(send_rpc(m, outcome))]

\* send_find_rpc (and the identical send_query_peers of dht/lookup.rs):
\* a FindValueResponse(Some(data)) is pushed if it deserializes and is valid
send_find_rpc(m, found_values, outcome, reply, time) ==
  IF outcome = "ok"
    THEN [ok |-> TRUE, metrics |-> send_rpc(m, outcome),
          found |-> IF reply # None
                      THEN LET r == deserialize_value(CHOOSE b \in reply : TRUE)
                           IN IF r.ok /\ is_valid(r.stored, time)
                                THEN Append(found_values, r.stored)
                                ELSE found_values
                      ELSE found_values]
    ELSE [ok |-> FALSE, metrics |-> inc_rpc_failures(send_rpc(m, outcome)),
          found |-> found_values]

\* the FindValueResponse payloads peer p may send for the key at this time
Replies(p, key) ==
  IF p \in Nodes THEN {handle_find_value(storage[p], key, clock)}
                 ELSE ForeignReplies(clock)

AllReplies == UNION {Replies(p, k) : p \in PeerAddrs, k \in Keys}

\* the gathered values find_value may return: those of the highest version
select_highest(found_values) ==
  {i \in 1..Len(found_values) :
     \A j \in 1..Len(found_values) :
       found_values[j].version <= found_values[i].version}

(***************************************************************************)
(* DhtNode operations                                                      *)
(***************************************************************************)
\* the number of add_peer calls made so far
Joined == Cardinality({j \in 1..Len(Joins) : Joins[j][2] \in rt[Joins[j][1]]})

\* add_peer(peer): the routing table learns the peer, known_peers is updated
AddPeer(n, p) ==
  /\ Joined < Len(Joins)
  /\ <<n, p>> = Joins[Joined + 1]
  /\ rt' = [rt EXCEPT ![n] = @ \cup {p}]
  /\ metrics' = [metrics EXCEPT ![n].known_peers = Cardinality(rt[n]) + 1]
  /\ UNCHANGED <<storage, op, clock, ops, poolVars, nodeVars>>

\* store(key, value) up to the replication loop: the local StoredValue is
\* built and put; StorageFull ends the call with an error
StoreBegin(n, key, value, policy) ==
  /\ op[n].phase # "rpc"
  /\ ops < MaxOps
  /\ ops' = ops + 1
  /\ LET sv == create_stored_value(value, n, FALSE, Some(DefaultTtl), clock)
         r == put(storage[n], key, serialize_value(sv), policy, clock)
     IN IF r.ok
          THEN /\ storage' = [storage EXCEPT ![n] = r.st]
               /\ op' = [op EXCEPT ![n] =
                           [IdleOp EXCEPT !.kind = "store", !.phase = "rpc",
                              !.key = key, !.value = value, !.version = clock,
                              !.table = rt[n],
                              !.peers = closest_peers(rt[n], KeyIdOf[key],
                                                      ReplicationFactor)]]
               /\ UNCHANGED metrics
          ELSE /\ op' = [op EXCEPT ![n] =
                           [IdleOp EXCEPT !.kind = "store", !.phase = "done",
                              !.key = key, !.value = value, !.version = clock]]
               /\ metrics' = [metrics EXCEPT ![n] = record_store_attempt(@, FALSE)]
               /\ UNCHANGED storage
  /\ UNCHANGED <<rt, clock, poolVars, nodeVars>>

\* (mutation of StoreRpc: the loop ends at the first peer that fails)
StoreRpcStopAtFailure(n, outcome, delivered, policy) ==
  /\ op[n].kind = "store" /\ op[n].phase = "rpc" /\ op[n].peers # <<>>
  /\ outcome = "ok" => delivered
  /\ LET p == Head(op[n].peers)
     IN IF p = n
          THEN /\ op' = [op EXCEPT ![n].peers = Tail(@), ![n].successes = @ + 1]
               /\ UNCHANGED <<storage, metrics>>
          ELSE LET r == send_store_rpc(metrics[n], outcome)
               IN /\ metrics' = [metrics EXCEPT ![n] = r.metrics]
                  /\ storage' = IF delivered /\ p \in Nodes
                                  THEN [storage EXCEPT ![p] =
                                          handle_store(@, p, op[n].key,
                                                       op[n].value, policy, clock)]
                                  ELSE storage
                  /\ op' = [op EXCEPT
                              ![n].peers = IF r.ok THEN Tail(@) ELSE <<>>,
                              ![n].successes = IF r.ok THEN @ + 1 ELSE @,
                              ![n].reached = IF delivered THEN @ \cup {p} ELSE @,
                              ![n].acked = IF r.ok THEN @ \cup {p} ELSE @,
                              ![n].failed = IF r.ok THEN @ ELSE @ \cup {p}]
  /\ UNCHANGED <<rt, clock, ops, poolVars, nodeVars>>

\* replicate_to_peers_store, one iteration of the loop: the next peer is
\* skipped if it carries the node's own address, else it is sent the Store
\* RPC.  delivered: the request reached the peer and was handled there.
StoreRpc(n, outcome, delivered, policy) ==
  /\ op[n].kind = "store" /\ op[n].phase = "rpc" /\ op[n].peers # <<>>
  /\ outcome = "ok" => delivered
  /\ LET p == Head(op[n].peers)
     IN IF p = n
          THEN /\ op' = [op EXCEPT ![n].peers = Tail(@), ![n].successes = @ + 1]
               /\ UNCHANGED <<storage, metrics>>
          ELSE LET r == send_store_rpc(metrics[n], outcome)
               IN /\ metrics' = [metrics EXCEPT ![n] = r.metrics]
                  /\ storage' = IF delivered /\ p \in Nodes
                                  THEN [storage EXCEPT ![p] =
                                          handle_store(@, p, op[n].key,
                                                       op[n].value, policy, clock)]
                                  ELSE storage
                  /\ op' = [op EXCEPT
                              ![n].peers = Tail(@),
                              ![n].successes = IF r.ok THEN @ + 1 ELSE @,
                              ![n].reached = IF delivered THEN @ \cup {p} ELSE @,
                              ![n].acked = IF r.ok THEN @ \cup {p} ELSE @,
                              ![n].failed = IF r.ok THEN @ ELSE @ \cup {p}]
  /\ UNCHANGED <<rt, clock, ops, poolVars, nodeVars>>

\* store after the loop: the attempt is recorded as a success, Ok is returned
StoreFinish(n) ==
  /\ op[n].kind = "store" /\ op[n].phase = "rpc" /\ op[n].peers = <<>>
  /\ metrics' = [metrics EXCEPT ![n] = record_store_attempt(@, TRUE)]
  /\ op' = [op EXCEPT ![n].phase = "done", ![n].ok = TRUE]
  /\ UNCHANGED <<storage, rt, clock, ops, poolVars, nodeVars>>

\* find_value(key) up to the peer queries: a valid local entry is returned at
\* once, an expired one is removed and the closest peers are selected
FindBegin(n, key) ==
  /\ op[n].phase # "rpc"
  /\ ops < MaxOps
  /\ ops' = ops + 1
  /\ LET local == find_in_local_storage(storage[n], key, clock)
     IN /\ storage' = [storage EXCEPT ![n] = local.st]
        /\ IF local.found # <<>>
             THEN /\ op' = [op EXCEPT ![n] =
                              [IdleOp EXCEPT !.kind = "find", !.phase = "done",
                                 !.key = key, !.found = local.found,
                                 !.ok = TRUE,
                                 !.data = Some(local.found[1].data)]]
                  /\ metrics' = [metrics EXCEPT ![n] = record_find_attempt(@, TRUE)]
             ELSE /\ op' = [op EXCEPT ![n] =
                              [IdleOp EXCEPT !.kind = "find", !.phase = "rpc",
                                 !.key = key, !.table = rt[n],
                                 !.peers = closest_peers(rt[n], KeyIdOf[key],
                                                         ReplicationFactor)]]
                  /\ UNCHANGED metrics
  /\ UNCHANGED <<rt, clock, poolVars, nodeVars>>

\* replicate_to_peers_find / query_peers_for_value, one iteration of the loop:
\* the next peer is sent FindValue(key) and answers with reply
FindRpc(n, outcome, reply) ==
  /\ op[n].kind = "find" /\ op[n].phase = "rpc" /\ op[n].peers # <<>>
  /\ \/ outcome = "ok" /\ reply \in Replies(Head(op[n].peers), op[n].key)
     \/ outcome = "err" /\ reply = None
  /\ LET r == send_find_rpc(metrics[n], op[n].found, outcome, reply, clock)
     IN /\ metrics' = [metrics EXCEPT ![n] = r.metrics]
        /\ op' = [op EXCEPT ![n].peers = Tail(@),
                            ![n].found = r.found,
                            ![n].successes = IF r.ok THEN @ + 1 ELSE @,
                            ![n].reply = [status |-> outcome, value |-> reply]]
  /\ UNCHANGED <<storage, rt, clock, ops, poolVars, nodeVars>>

\* find_value after the loop: the gathered value i of the highest version is
\* returned, or None if nothing was gathered
FindFinish(n, i) ==
  /\ op[n].kind = "find" /\ op[n].phase = "rpc" /\ op[n].peers = <<>>
  /\ IF op[n].found = <<>>
       THEN /\ i = 0
            /\ op' = [op EXCEPT ![n].phase = "done"]
            /\ metrics' = [metrics EXCEPT ![n] = record_find_attempt(@, FALSE)]
       ELSE /\ i \in select_highest(op[n].found)
            /\ op' = [op EXCEPT ![n].phase = "done", ![n].ok = TRUE,
                                ![n].data = Some(op[n].found[i].data)]
            /\ metrics' = [metrics EXCEPT ![n] = record_find_attempt(@, TRUE)]
  /\ UNCHANGED <<storage, rt, clock, ops, poolVars, nodeVars>>

\* a second passes
ClockTick ==
  /\ clock < MaxClock
  /\ clock' = clock + 1
  /\ UNCHANGED <<storage, rt, metrics, op, ops, poolVars, nodeVars>>

Outcomes == {"ok", "err", "timeout"}

DhtNext ==
  \/ \E n \in Nodes, p \in PeerAddrs : AddPeer(n, p)
  \/ \E n \in Nodes, key \in Keys, policy \in Policies :
       StoreBegin(n, key, ValueOf[n], policy)
  \/ \E n \in Nodes, outcome \in Outcomes, delivered \in BOOLEAN,
        policy \in Policies : StoreRpc(n, outcome, delivered, policy)
  \/ \E n \in Nodes : StoreFinish(n)
  \/ \E n \in Nodes, key \in Keys : FindBegin(n, key)
  \/ \E n \in Nodes, outcome \in {"ok", "err"}, reply \in AllReplies :
       FindRpc(n, outcome, reply)
  \/ \E n \in Nodes, i \in 0..ReplicationFactor : FindFinish(n, i)
  \/ ClockTick

DhtSpec == Init /\ [][DhtNext]_vars

(***************************************************************************)
(* Claims about store and find_value                                       *)
(***************************************************************************)
RECURSIVE SumOver(_, _)
SumOver(S, f) ==
  IF S = {} THEN 0
  ELSE LET x == CHOOSE y \in S : TRUE IN f[x] + SumOver(S \ {x}, f)

\* the number of store calls started so far, finished or not
StoresStarted ==
  SumOver(Nodes, [n \in Nodes |->
    metrics[n].store_ops
      + (IF op[n].kind = "store" /\ op[n].phase = "rpc" THEN 1 ELSE 0)])

\* what step 2 of find_value(k), the probe of the local storage, returns at n
LocalProbe(n, k) ==
  LET local == find_in_local_storage(storage[n], k, clock)
  IN IF local.found = <<>> THEN None ELSE Some(local.found[1].data)

StoreReturned(a) == op[a].kind = "store" /\ op[a].phase = "done"

InSeq(x, seq) == \E i \in 1..Len(seq) : seq[i] = x

\* the peers store selected: closest_peers(NodeId(key), replication.factor)
SelectedBy(a) ==
  closest_peers(op[a].table, KeyIdOf[op[a].key], ReplicationFactor)

C7_StoreSuccessIffPut ==
  [][ \A n \in Nodes :
        (StoreReturned(n)' /\ op'[n] # op[n]) =>
          /\ metrics'[n].store_ops = metrics[n].store_ops + 1
          /\ IF op[n].kind = "store" /\ op[n].phase = "rpc"
               THEN /\ op'[n].ok
                    /\ metrics'[n].store_success = metrics[n].store_success + 1
               ELSE /\ ~op'[n].ok
                    /\ op'[n].key \notin DOMAIN storage[n]
                    /\ Cardinality(DOMAIN storage[n]) >= MaxEntries
                    /\ storage'[n] = storage[n]
                    /\ metrics'[n].store_success = metrics[n].store_success ]_vars

C7_Witness ==
  \E a \in Nodes : \E b \in Nodes \ {a} :
    /\ StoreReturned(a) /\ op[a].ok
    /\ op[a].failed # {} /\ op[a].acked = {}
    /\ metrics[a].store_success = 1
    /\ StoreReturned(b) /\ ~op[b].ok
    /\ metrics[b].store_ops = 1 /\ metrics[b].store_success = 0

\* two store calls for one key, by different nodes, reached replica r, and
\* a's is the one with the greater version
BothReached(a, c, r) ==
  /\ a # c /\ r \notin {a, c}
  /\ StoresStarted = 2
  /\ op[a].kind = "store" /\ op[c].kind = "store"
  /\ op[a].key = op[c].key
  /\ r \in op[a].reached \cap op[c].reached
  /\ op[a].version > op[c].version
  /\ op[a].key \in DOMAIN storage[r]

StrictlyValid(sv, t) == sv.expiration = None \/ \A e \in sv.expiration : e > t

FindStarts(n) == op'[n].kind = "find" /\ ops' = ops + 1 /\ op'[n] # op[n]
FindQueries(n) ==
  op[n].kind = "find" /\ op[n].phase = "rpc" /\ op'[n].peers # op[n].peers

\* C9: find_value uses a StoredValue only if it has no expiration or one
\* strictly greater than the current time.  A valid local entry is the one
\* value gathered and the storage keeps it, an expired one is removed from
\* the storage and not gathered; a peer response is added to the gathered
\* values exactly when it decodes to a valid value, and the per-peer call
\* succeeds for every response, valid or not.
C9_NoExpiredValue ==
  [][ \A n \in Nodes :
        /\ (FindStarts(n) /\ op'[n].key \in DOMAIN storage[n]) =>
             LET r == deserialize_value(storage[n][op'[n].key])
             IN r.ok =>
                  IF StrictlyValid(r.stored, clock)
                    THEN /\ op'[n].found = <<r.stored>>
                         /\ storage'[n] = storage[n]
                    ELSE /\ op'[n].key \notin DOMAIN storage'[n]
                         /\ op'[n].found = <<>>
        /\ (FindQueries(n) /\ op'[n].reply.status = "ok") =>
             /\ op'[n].successes = op[n].successes + 1
             /\ LET reply == op'[n].reply.value
                    r == deserialize_value(CHOOSE b \in reply : TRUE)
                IN IF reply # None /\ r.ok /\ StrictlyValid(r.stored, clock)
                     THEN op'[n].found = Append(op[n].found, r.stored)
                     ELSE op'[n].found = op[n].found ]_vars

C9_Witness ==
  \E n \in Nodes :
    /\ op[n].kind = "find" /\ op[n].reply.status = "ok"
    /\ op[n].reply.value # None
    /\ LET r == deserialize_value(CHOOSE b \in op[n].reply.value : TRUE)
       IN r.ok /\ r.stored.expiration = Some(clock)
    /\ op[n].found = <<>> /\ op[n].successes >= 1

\* C10: a find_value that has gathered values returns the data of one whose
\* version is the maximum among them and counts one find_value_success; one
\* that has gathered none returns None and counts none.  Both count one
\* find_value_ops.
C10_HighestVersionReturned ==
  [][ \A n \in Nodes :
        (op'[n].kind = "find" /\ op'[n].phase = "done" /\ op'[n] # op[n]) =>
          LET found == op'[n].found
          IN /\ metrics'[n].find_value_ops = metrics[n].find_value_ops + 1
             /\ IF found = <<>>
                  THEN /\ op'[n].data = None /\ ~op'[n].ok
                       /\ metrics'[n].find_value_success =
                            metrics[n].find_value_success
                  ELSE /\ \E i \in 1..Len(found) :
                            /\ \A j \in 1..Len(found) :
                                 found[j].version <= found[i].version
                            /\ op'[n].data = Some(found[i].data)
                       /\ op'[n].ok
                       /\ metrics'[n].find_value_success =
                            metrics[n].find_value_success + 1 ]_vars

C10_Witness ==
  \E n \in Nodes :
    /\ op[n].kind = "find" /\ op[n].phase = "done"
    /\ Len(op[n].found) = 2
    /\ op[n].found[1].version < op[n].found[2].version
    /\ op[n].data = Some(op[n].found[2].data)
    /\ metrics[n].find_value_success = 1

(***************************************************************************)
(* The maintenance scheduler: expiry sweep                                 *)
(***************************************************************************)
\* the entry is one the sweep removes: its deserialized expiration < now
SweptAt(bytes, time) ==
  LET r == deserialize_value(bytes)
  IN r.ok /\ \E e \in r.stored.expiration : e < time

\* the expiry sweep of one maintenance tick on node n
ExpirySweep(n) ==
  /\ \E k \in DOMAIN storage[n] : SweptAt(storage[n][k], clock)
  /\ storage' = [storage EXCEPT ![n] =
                   [k \in {x \in DOMAIN @ : ~SweptAt(@[x], clock)} |-> @[k]]]
  /\ UNCHANGED <<rt, metrics, op, clock, ops, poolVars, nodeVars>>

\* the clock of the runs with maintenance goes one second further
SweepClock == MaxClock + 1

LateTick ==
  /\ clock < SweepClock
  /\ clock' = clock + 1
  /\ UNCHANGED <<storage, rt, metrics, op, ops, poolVars, nodeVars>>

\* the keys the runs with maintenance use
SweepKeys == {"k1"}

\* the DhtNodes with their maintenance task
SweepNext ==
  \/ \E n \in Nodes, p \in PeerAddrs : AddPeer(n, p)
  \/ \E n \in Nodes, key \in SweepKeys, policy \in Policies :
       StoreBegin(n, key, ValueOf[n], policy)
  \/ \E n \in Nodes, outcome \in Outcomes, delivered \in BOOLEAN,
        policy \in Policies : StoreRpc(n, outcome, delivered, policy)
  \/ \E n \in Nodes : StoreFinish(n)
  \/ \E n \in Nodes, key \in SweepKeys : FindBegin(n, key)
  \/ \E n \in Nodes, outcome \in {"ok", "err"}, reply \in AllReplies :
       FindRpc(n, outcome, reply)
  \/ \E n \in Nodes, i \in 0..ReplicationFactor : FindFinish(n, i)
  \/ LateTick
  \/ \E n \in Nodes : ExpirySweep(n)

SweepSpec == Init /\ [][SweepNext]_vars

(***************************************************************************)
(* Claims about expiry                                                     *)
(***************************************************************************)
EntryOf(n, k) == deserialize_value(storage[n][k])

Sweeps(n) == storage'[n] # storage[n] /\ op' = op

\* the entry of k at n has an expiration, and it is before time t
ExpiredBefore(n, k, t) == \E e \in EntryOf(n, k).stored.expiration : e < t

\* find_value(k) called at n in this state would get a value: from the local
\* probe, or from one of the nodes among the selected peers
WouldFind(n, k) ==
  \/ LocalProbe(n, k) # None
  \/ \E p \in Nodes :
       /\ InSeq(p, closest_peers(rt[n], KeyIdOf[k], ReplicationFactor))
       /\ handle_find_value(storage[p], k, clock) # None

NewBucket(m) ==
  /\ bucket' = [peers |-> <<>>, max_size |-> m]
  /\ peer' = NoPeer
  /\ before' = bucket'
  /\ UNCHANGED <<poolVars, dhtVars, rec, rpcVars, healthVars, table, callVars>>

\* bucket.update_peer(p)
UpdatePeer(p) ==
  /\ bucket' = update_peer(bucket, p)
  /\ peer' = p
  /\ before' = bucket
  /\ UNCHANGED <<poolVars, dhtVars, rec, rpcVars, healthVars, table, callVars>>

KbNext ==
  \/ \E m \in 0..MaxBucketSize : NewBucket(m)
  \/ \E p \in PeerInfo : UpdatePeer(p)

KbSpec == Init /\ [][KbNext]_vars

\* the positions of the bucket that hold the id
Holding(b, id) == {i \in 1..Len(b.peers) : b.peers[i].id = id}

\* this step is a call of update_peer
Updates == peer' # NoPeer

\* C13: after any sequence of update_peer calls the bucket holds no two peers
\* with the same id and at most max_size peers.
C13_NoDuplicateBounded ==
  /\ \A i \in 1..Len(bucket.peers) : \A j \in 1..Len(bucket.peers) :
       bucket.peers[i].id = bucket.peers[j].id => i = j
  /\ len(bucket) <= bucket.max_size

\* a full bucket of MaxBucketSize peers has been offered a peer it holds and
\* a peer it does not hold
C13_Witness ==
  /\ len(bucket) = MaxBucketSize /\ is_full(bucket)
  /\ len(before) = MaxBucketSize
  /\ peer # NoPeer /\ Holding(before, peer.id) # {}
  /\ \E i \in 1..len(bucket) : bucket.peers[i].last_seen = MaxSeen

C15_ExistingReplacedOnce ==
  [][ Updates =>
        /\ Holding(bucket, peer'.id) # {} =>
             /\ Cardinality(Holding(bucket', peer'.id)) = 1
             /\ \A i \in Holding(bucket', peer'.id) : bucket'.peers[i] = peer'
             /\ len(bucket') = len(bucket)
        /\ update_peer(bucket', peer') = bucket' ]_vars

\* a bucket at capacity held the id of the peer passed, with another
\* last_seen, and now holds the peer passed
C15_Witness ==
  /\ len(before) = MaxBucketSize /\ is_full(before)
  /\ peer # NoPeer
  /\ \E i \in Holding(before, peer.id) : before.peers[i].last_seen # peer.last_seen
  /\ \E i \in Holding(bucket, peer.id) : bucket.peers[i] = peer

(***************************************************************************)
(* dht/metrics/utils.rs: concurrent tasks of one node record their store   *)
(* and find_value attempts on the shared DhtMetrics, one fetch_add at a    *)
(* time                                                                    *)
(***************************************************************************)
\* total number of record_store_attempt / record_find_attempt calls
MaxRecords == 4
\* the node whose DhtMetrics the tasks share
MetricsNode == "A"

RecordsStarted ==
  metrics[MetricsNode].store_ops + metrics[MetricsNode].find_value_ops
    + Cardinality({t \in Tasks : rec[t].at = "ops"})

\* task t enters record_store_attempt(metrics, success) or
\* record_find_attempt(metrics, success)
RecordBegin(t, kind, success) ==
  /\ rec[t].at = "idle"
  /\ RecordsStarted < MaxRecords
  /\ rec' = [rec EXCEPT ![t] = [kind |-> kind, success |-> success, at |-> "ops"]]
  /\ UNCHANGED <<poolVars, dhtVars, kbVars, rpcVars, healthVars, table, callVars>>

\* metrics.inc_store_ops() / metrics.inc_find_value_ops()
RecordOps(t) ==
  /\ rec[t].at = "ops"
  /\ metrics' = [metrics EXCEPT ![MetricsNode] =
                   IF rec[t].kind = "store" THEN inc_store_ops(@)
                                            ELSE inc_find_value_ops(@)]
  /\ rec' = [rec EXCEPT ![t].at = IF rec[t].success THEN "success" ELSE "idle"]
  /\ UNCHANGED <<storage, rt, op, clock, ops, poolVars, kbVars, rpcVars, healthVars, table, callVars>>

\* if success { metrics.inc_store_success() / metrics.inc_find_value_success() }
RecordSuccess(t) ==
  /\ rec[t].at = "success"
  /\ metrics' = [metrics EXCEPT ![MetricsNode] =
                   IF rec[t].kind = "store" THEN inc_store_success(@)
                                            ELSE inc_find_value_success(@)]
  /\ rec' = [rec EXCEPT ![t].at = "idle"]
  /\ UNCHANGED <<storage, rt, op, clock, ops, poolVars, kbVars, rpcVars, healthVars, table, callVars>>

MetricsNext ==
  \E t \in Tasks :
    \/ \E kind \in {"store", "find"}, success \in BOOLEAN :
         RecordBegin(t, kind, success)
    \/ RecordOps(t)
    \/ RecordSuccess(t)

MetricsSpec == Init /\ [][MetricsNext]_vars

\* the successes the tasks of the node are about to count
Pending(kind) ==
  Cardinality({t \in Tasks : rec[t].kind = kind /\ rec[t].at = "success"})

\* C16: in every state, under every interleaving of the concurrent calls,
\* store_success <= store_ops and find_value_success <= find_value_ops; more
\* precisely the successes counted and still to count never exceed the ops.
C16_SuccessAtMostOps ==
  \A n \in Nodes :
    /\ metrics[n].store_success <= metrics[n].store_ops
    /\ metrics[n].find_value_success <= metrics[n].find_value_ops
    /\ n = MetricsNode =>
         /\ metrics[n].store_success + Pending("store") <= metrics[n].store_ops
         /\ metrics[n].find_value_success + Pending("find")
              <= metrics[n].find_value_ops

\* two tasks are between the two increments while a third call has counted
\* both, for stores and for finds
C16_Witness ==
  /\ Pending("store") + Pending("find") = 2
  /\ \E t \in Tasks : rec[t].at = "ops"
  /\ metrics[MetricsNode].store_success + metrics[MetricsNode].find_value_success = 1

\* storage and routing table of n are both empty
EmptyNode(n) == storage[n] = EmptyMap /\ rt[n] = {}

\* n is inside a find_value that found its routing table empty
InEmptyFind(n) ==
  op[n].kind = "find" /\ op[n].phase = "rpc" /\ op[n].table = {}

\* the counters of store, find_value and send_rpc (a concurrent add_peer
\* sets known_peers)
Counted(m) == [m EXCEPT !.known_peers = 0]

\* C17: find_value on a node whose storage and routing table are both empty
\* selects no peer and sends no RPC, returns None, and changes the metrics of
\* the node by find_value_ops + 1 only.
C17_EmptyFindReturnsNone ==
  [][ \A n \in Nodes :
        /\ FindStarts(n) /\ EmptyNode(n) =>
             /\ op'[n].phase = "rpc" /\ op'[n].table = {}
             /\ op'[n].peers = <<>> /\ op'[n].found = <<>>
             /\ Counted(metrics'[n]) = Counted(metrics[n])
             /\ storage'[n] = EmptyMap
        /\ InEmptyFind(n) =>
             \/ op'[n] = op[n] /\ Counted(metrics'[n]) = Counted(metrics[n])
             \/ /\ op'[n] = [op[n] EXCEPT !.phase = "done"]
                /\ op'[n].data = None /\ ~op'[n].ok
                /\ metrics'[n] = [metrics[n] EXCEPT !.find_value_ops = @ + 1]
    ]_vars

\* the first call of a node with nothing stored and no peer has returned None
C17_Witness ==
  \E n \in Nodes :
    /\ EmptyNode(n)
    /\ op[n].kind = "find" /\ op[n].phase = "done" /\ op[n].table = {}
    /\ op[n].data = None
    /\ metrics[n] = [NewMetrics EXCEPT !.find_value_ops = 1]

(***************************************************************************)
(* send_rpc(addr, Ping) by the tasks of one node over its ConnectionPool,  *)
(* to peers that accept a connection, answer one request and close         *)
(***************************************************************************)
\* handle_rpc(Ping)
handle_rpc_ping == "Pong"

\* the send_rpc calls made so far
RpcsStarted ==
  calls + Cardinality({t \in Tasks : rpc[t].at = "acquire" /\ pc[t] = "idle"})

\* send_rpc step 1: rpc_requests is incremented
SendRpc(t, a) ==
  /\ pc[t] = "idle" /\ rpc[t].at \in {"none", "answered"}
  /\ RpcsStarted < MaxCalls
  /\ rpc' = [rpc EXCEPT ![t] = [addr |-> a, at |-> "acquire", result |-> "none"]]
  /\ metrics' = [metrics EXCEPT ![MetricsNode] = inc_rpc_requests(@)]
  /\ UNCHANGED <<storage, rt, op, clock, ops, poolVars, kbVars, rec, served, healthVars, table, callVars>>

\* send_rpc step 2: pool.get_connection(addr)
Acquire(t) ==
  /\ rpc[t].at = "acquire"
  /\ GetConnection(t, rpc[t].addr)

\* send_rpc steps 3 to 6 on the connection obtained: the request frame is
\* written and the response read.  The peer reads one request per accepted
\* connection, answers it and closes, so on a stream that was answered before
\* the read ends in an error and rpc_failures is incremented.
Exchange(t) ==
  /\ rpc[t].at = "acquire" /\ pc[t] = "holding"
  /\ IF conn[t] \in served
       THEN /\ rpc' = [rpc EXCEPT ![t].at = "answered", ![t].result = "Err"]
            /\ metrics' = [metrics EXCEPT ![MetricsNode] = inc_rpc_failures(@)]
            /\ UNCHANGED served
       ELSE /\ rpc' = [rpc EXCEPT ![t].at = "answered",
                                  ![t].result = handle_rpc_ping]
            /\ served' = served \cup {conn[t]}
            /\ UNCHANGED metrics
  /\ UNCHANGED <<storage, rt, op, clock, ops, poolVars, kbVars, rec, healthVars, table, callVars>>

\* send_rpc returns: the PooledConnection goes out of scope
Release(t) ==
  /\ rpc[t].at = "answered"
  /\ DropConnection(t, TRUE)

PingNext ==
  \/ \E t \in Tasks, a \in Reachable : SendRpc(t, a)
  \/ \E t \in Tasks : Acquire(t)
  \/ \E t \in Tasks :
       /\ pc[t] = "lock_wait"
       /\ \E dead \in SUBSET IdleStreams(target[t]) : TryGetHealthy(t, dead, TRUE)
  \/ \E t \in Tasks : Resume(t)
  \/ \E t \in Tasks : Connect(t)
  \/ \E t \in Tasks : Exchange(t)
  \/ \E t \in Tasks : Release(t)
  \/ Background

PingSpec == Init /\ [][PingNext]_vars

\* C18 as stated: send_rpc(B.addr, Ping) to a reachable node B returns Pong,
\* adds one to rpc_requests and leaves rpc_failures unchanged.
C18_PingReturnsPongAsClaimed ==
  [][ \A t \in Tasks :
        /\ rpc[t].at # "acquire" /\ rpc'[t].at = "acquire" =>
             metrics'[MetricsNode] =
               [metrics[MetricsNode] EXCEPT !.rpc_requests = @ + 1]
        /\ rpc[t].at = "acquire" /\ rpc'[t].at = "answered"
           /\ rpc[t].addr \in Reachable =>
             /\ rpc'[t].result = "Pong"
             /\ metrics'[MetricsNode] = metrics[MetricsNode] ]_vars

(***************************************************************************)
(* Maintenance, health check: every peer of the routing table is pinged,   *)
(* its consecutive failures are counted, and it is evicted at max_failures *)
(***************************************************************************)
\* HealthCheckConfig.max_failures
MaxFailures == 2
\* total number of health-check pings in one behaviour
MaxPings == 4

\* (variant of health_check: a success does not reset the count)
health_check_no_reset(count, outcome) ==
  IF outcome = "ok"
    THEN [fails |-> count, evict |-> FALSE]
    ELSE IF count + 1 >= MaxFailures
           THEN [fails |-> 0, evict |-> TRUE]
           ELSE [fails |-> count + 1, evict |-> FALSE]

\* the count of a peer after a ping, and whether the peer is evicted
health_check(count, outcome) ==
  IF outcome = "ok"
    THEN [fails |-> 0, evict |-> FALSE]
    ELSE IF count + 1 >= MaxFailures
           THEN [fails |-> 0, evict |-> TRUE]
           ELSE [fails |-> count + 1, evict |-> FALSE]

PingsMade == SumOver(Nodes, [n \in Nodes |-> metrics[n].rpc_requests])

\* the health check of node n pings its peer p: send_rpc(p, Ping) bounded by
\* health_check.timeout ends with Pong, with an error or with the timeout
HealthPing(n, p, outcome) ==
  /\ p \in rt[n]
  /\ PingsMade < MaxPings
  /\ LET r == health_check(fails[n][p], outcome)
     IN /\ fails' = [fails EXCEPT ![n][p] = r.fails]
        /\ hist' = [hist EXCEPT ![n][p] =
                      IF r.evict THEN <<>> ELSE Append(@, outcome = "ok")]
        /\ seen' = [seen EXCEPT ![n][p] = IF outcome = "ok" THEN clock ELSE @]
        /\ rt' = [rt EXCEPT ![n] = IF r.evict THEN @ \ {p} ELSE @]
        /\ metrics' = [metrics EXCEPT ![n] =
             [send_rpc(@, outcome) EXCEPT
                !.known_peers = IF r.evict THEN Cardinality(rt[n]) - 1 ELSE @]]
  /\ UNCHANGED <<storage, op, clock, ops, poolVars, kbVars, rec, rpcVars, table, callVars>>

HealthNext ==
  \/ \E n \in Nodes, p \in PeerAddrs : AddPeer(n, p)
  \/ \E n \in Nodes, p \in PeerAddrs, outcome \in Outcomes :
       HealthPing(n, p, outcome)
  \/ ClockTick

HealthSpec == Init /\ [][HealthNext]_vars

\* the last k entries of a sequence of ping outcomes are all failures
FailedLast(h, k) ==
  Len(h) >= k /\ \A i \in (Len(h) - k + 1)..Len(h) : ~h[i]

\* node n pings p in this step, and the ping fails / succeeds
Pinged(n) == metrics'[n].rpc_requests = metrics[n].rpc_requests + 1
PingFails(n, p) ==
  /\ Pinged(n)
  /\ \/ p \notin rt'[n] /\ p \in rt[n]
     \/ hist'[n][p] = Append(hist[n][p], FALSE)
PingSucceeds(n, p) == Pinged(n) /\ hist'[n][p] = Append(hist[n][p], TRUE)

\* C19: a peer is evicted by the health check exactly in the step where it
\* fails the last of max_failures consecutive pings; a successful ping
\* resets the count and sets last_seen; a peer in the routing table has
\* fewer than max_failures consecutive failures.
C19_EvictedAtMaxFailures ==
  /\ [](\A n \in Nodes : \A p \in rt[n] :
          /\ fails[n][p] < MaxFailures
          /\ ~FailedLast(hist[n][p], MaxFailures)
          /\ FailedLast(hist[n][p], fails[n][p])
          /\ ~FailedLast(hist[n][p], fails[n][p] + 1))
  /\ [][ \A n \in Nodes : \A p \in PeerAddrs :
           /\ PingFails(n, p) =>
                (p \notin rt'[n]
                   <=> FailedLast(Append(hist[n][p], FALSE), MaxFailures))
           /\ PingSucceeds(n, p) =>
                /\ p \in rt'[n] /\ fails'[n][p] = 0 /\ seen'[n][p] = clock
           /\ p \in rt[n] /\ p \notin rt'[n] =>
                /\ Pinged(n)
                /\ FailedLast(hist[n][p], MaxFailures - 1) ]_vars

\* a peer has been evicted after a failure, a success and max_failures
\* failures
C19_Witness ==
  \E n \in Nodes : \E p \in PeerAddrs :
    /\ p \notin rt[n] /\ hist[n][p] = <<>>
    /\ metrics[n].rpc_requests = MaxFailures + 2
    /\ seen[n][p] = MaxClock
    /\ metrics[n].known_peers = Cardinality(rt[n])

(***************************************************************************)
(* The RoutingTable of one node: IdBits buckets of capacity BucketSize,    *)
(* filled by add_peer through KBucket::update_peer                         *)
(***************************************************************************)
\* the ids of IdBits bits, and the peers offered to the table
Ids == 0..(2^IdBits - 1)
TablePeers == [id : Ids, addr : {PeerAddr}, last_seen : {0}]

\* the position of the highest set bit of x > 0, the lowest bit being 0
HighestBit(x) == CHOOSE i \in 0..(IdBits - 1) : 2^i <= x /\ x < 2^(i + 1)

\* bucket_index(self, other) = (bits - 1) - position of the highest set bit
\* of xor(self, other); 159 - ... for the ids of 160 bits
bucket_index(self, other) == (IdBits - 1) - HighestBit(distance(self, other))

\* RoutingTable::add_peer: a peer with the id of the node is ignored, any
\* other peer is passed to update_peer of the bucket of its index
add_peer(tbl, p) ==
  IF p.id = tbl.self
    THEN [tbl EXCEPT !.last = p.id]
    ELSE [tbl EXCEPT !.last = p.id,
                     !.buckets[bucket_index(tbl.self, p.id)] = update_peer(@, p)]

\* RoutingTable::new for the node of id
TableNew(id) ==
  /\ table' = NewTable(id)
  /\ UNCHANGED <<poolVars, dhtVars, kbVars, rec, rpcVars, healthVars, callVars>>

\* routing_table.add_peer(p)
TableAddPeer(p) ==
  /\ table' = add_peer(table, p)
  /\ UNCHANGED <<poolVars, dhtVars, kbVars, rec, rpcVars, healthVars, callVars>>

TableNext ==
  \/ \E n \in Nodes : TableNew(NodeIdOf[n])
  \/ \E p \in TablePeers : TableAddPeer(p)

TableSpec == Init /\ [][TableNext]_vars

\* a and b have the same first i bits and differ in the next one
SharePrefix(a, b, i) ==
  /\ a \div 2^(IdBits - i) = b \div 2^(IdBits - i)
  /\ a \div 2^(IdBits - 1 - i) # b \div 2^(IdBits - 1 - i)

TotalPeers ==
  SumOver(DOMAIN table.buckets,
          [i \in DOMAIN table.buckets |-> Len(table.buckets[i].peers)])

\* C20: after any sequence of add_peer calls every peer of bucket i has an id
\* whose first differing bit from the id of the node, counted from the most
\* significant one, is bit i; no bucket holds an id twice; the id of the node
\* is in no bucket; and the table holds at most (number of buckets) * k peers.
C20_RoutingTableInvariant ==
  /\ \A i \in DOMAIN table.buckets :
       LET ps == table.buckets[i].peers
       IN \A j \in 1..Len(ps) :
            /\ ps[j].id # table.self
            /\ SharePrefix(table.self, ps[j].id, i)
            /\ \A l \in 1..Len(ps) : ps[l].id = ps[j].id => l = j
  /\ TotalPeers <= IdBits * BucketSize

\* every bucket holds a peer, the first is full, and the last add_peer was
\* given the id of the node
C20_Witness ==
  /\ \A i \in DOMAIN table.buckets : table.buckets[i].peers # <<>>
  /\ Len(table.buckets[0].peers) = BucketSize
  /\ table.last = table.self

\* the number of entries of the storage of n
Size(n) == Cardinality(DOMAIN storage[n])

\* the store call of n ends in this step with StorageFull
StoreRejected(n) ==
  /\ op'[n] # op[n] /\ op'[n].kind = "store" /\ op'[n].phase = "done"
  /\ ~op'[n].ok

\* C21: the storage of a node never holds more than max_entries entries; a
\* key that enters a storage of max_entries entries takes the place of one
\* entry, and a store that ends with StorageFull found max_entries other
\* keys and left the storage as it was.
C21_StorageBounded ==
  /\ [](\A n \in Nodes : Size(n) <= MaxEntries)
  /\ [][ \A n \in Nodes :
           /\ \A k \in DOMAIN storage'[n] \ DOMAIN storage[n] :
                Size(n) = MaxEntries =>
                  \E v \in DOMAIN storage[n] :
                    DOMAIN storage'[n] = (DOMAIN storage[n] \ {v}) \cup {k}
           /\ StoreRejected(n) =>
                /\ storage'[n] = storage[n]
                /\ Size(n) = MaxEntries
                /\ op'[n].key \notin DOMAIN storage[n] ]_vars

\* a store was rejected by a full storage, and the storage of another node
\* is full with a replica
C21_Witness ==
  \E n \in Nodes : \E m \in Nodes \ {n} :
    /\ Size(n) = MaxEntries
    /\ op[n].kind = "store" /\ op[n].phase = "done" /\ ~op[n].ok
    /\ Size(m) = MaxEntries
    /\ \E k \in DOMAIN storage[m] : EntryOf(m, k).stored.is_replica

\* get_connection returns to task t a stream that came from the idle list
HandsOutPooled(t) ==
  /\ pc[t] # "holding"
  /\ pc'[t] = "holding"
  /\ popped'[t] # NoTime

\* C22: get_connection never hands out an idle stream whose time since
\* last_used is >= max_idle_time
C22_NeverStaleAsClaimed ==
  [][ \A t \in Tasks :
        HandsOutPooled(t) => now' - popped'[t] < MaxIdleTime ]_vars

\* the age test of the cleaner, spelled out
Stale(en) == now - en.last_used >= MaxIdleTime

\* position of a stream in an idle list (0 if absent)
PosIn(entries, st) ==
  IF \E i \in 1..Len(entries) : entries[i].stream = st
    THEN CHOOSE i \in 1..Len(entries) : entries[i].stream = st
    ELSE 0

\* a pass of the cleaner: streams have been added to those it closed
CleanerPass == cleaned' # cleaned

\* the permits a get_connection could take at once
AvailablePermits == sem.permits

\* C23: a pass of the cleaner removes, for every address, exactly the idle
\* entries whose time since last_used is >= max_idle_time, keeps the others
\* in their order, and changes neither the available permits nor a held
\* PooledConnection.
C23_CleanerFrame ==
  [][ CleanerPass =>
        /\ \A a \in Addrs :
             /\ \A i \in 1..Len(idle[a]) :
                  Stale(idle[a][i]) <=>
                    PosIn(idle'[a], idle[a][i].stream) = 0
             /\ \A j \in 1..Len(idle'[a]) :
                  /\ PosIn(idle[a], idle'[a][j].stream) # 0
                  /\ idle'[a][j] = idle[a][PosIn(idle[a], idle'[a][j].stream)]
             /\ \A i \in 1..Len(idle'[a]) : \A j \in 1..Len(idle'[a]) :
                  i < j => PosIn(idle[a], idle'[a][i].stream)
                             < PosIn(idle[a], idle'[a][j].stream)
        /\ AvailablePermits' = AvailablePermits
        /\ sem' = sem
        /\ \A t \in Tasks : pc'[t] = pc[t] /\ conn'[t] = conn[t] ]_vars

\* C23 witness: the cleaner has closed a stream and kept two younger entries
\* of the same address while a PooledConnection was held
C23_Witness ==
  /\ cleaned # {}
  /\ \E a \in Addrs : Len(idle[a]) >= 2
  /\ HeldCount >= 1

\* C24: no task is suspended waiting for a semaphore permit while it holds
\* the pool mutex, so a waiting get_connection never keeps return_connection,
\* the cleaner or another get_connection from the idle map.
C24_NoWaitUnderLockAsClaimed ==
  \A t \in Tasks : WaitingForPermit(t) => mutex # t

\* permits nobody owns: available at once or already assigned to a waiter
FreePermits == sem.permits + Cardinality(sem.granted)

\* no get_connection is in progress
NoCallInProgress == \A t \in Tasks : pc[t] \in {"idle", "holding"}

\* the slow path of get_connection returns Err after it took its permit
ConnectFails(t) == pc[t] = "connecting" /\ pc'[t] = "idle"

\* get_connection returns Err (or is dropped) before it asked for a permit
FailsBeforePermit(t) == pc[t] = "lock_wait" /\ pc'[t] = "idle"

\* C25: permits are released on every exit path.  A get_connection that
\* fails gives back the permit it took (and changes nothing if it had taken
\* none), dropping a PooledConnection releases exactly one permit, no permit
\* is ever lost, and in every quiescent state the available permits plus the
\* live PooledConnections equal max_connections_per_peer.
C25_PermitsReleased ==
  /\ [](FreePermits + PermitsOwned = MaxConnectionsPerPeer)
  /\ [](NoCallInProgress =>
          sem.permits + HeldCount = MaxConnectionsPerPeer)
  /\ [][ \A t \in Tasks :
           /\ ConnectFails(t) => FreePermits' = FreePermits + 1
           /\ FailsBeforePermit(t) => sem' = sem
           /\ (HeldBy(t) /\ ~HeldBy(t)') => FreePermits' = FreePermits + 1 ]_vars

\* C25 witness: every call of the budget has returned; two of them opened a
\* stream, one of these was dropped and is idle again, the other is still
\* held, and the calls that returned no connection left no permit behind
C25_Witness ==
  /\ NoCallInProgress
  /\ calls = MaxCalls
  /\ nextStream = 2
  /\ HeldCount = 1
  /\ \E a \in Addrs : IdleStreams(a) # {}
  /\ sem.permits = MaxConnectionsPerPeer - 1

\* the open streams a pool owns for address a: held PooledConnections,
\* streams on their way back after a drop, idle entries
OpenStreams(a) ==
  Cardinality({t \in Tasks : HeldBy(t) /\ target[t] = a})
    + Cardinality({e \in transit : e.addr = a})
    + Len(idle[a])

\* C26: the number of open streams owned by the pool for one peer address
\* never exceeds max_connections_per_peer
C26_StreamsBoundedAsClaimed ==
  \A a \in Addrs : OpenStreams(a) <= MaxConnectionsPerPeer

\* the peers of a bucket other than the one with the id, in bucket order
Others(b, id) == SelectSeq(b.peers, LAMBDA q : q.id # id)

\* C27: after an update_peer(p) that inserts p or refreshes an existing p,
\* p is the first element returned by get_peers and the relative order of
\* the other peers is unchanged
C27_MostRecentFirstAsClaimed ==
  [][ (Updates /\ Holding(bucket', peer'.id) # {}) =>
        /\ get_peers(bucket')[1] = peer'
        /\ Others(bucket', peer'.id) = Others(bucket, peer'.id) ]_vars

(***************************************************************************)
(* dht/replication.rs: replicate_to_peers_store called with a given list   *)
(* of peers, as store and the replication refresh of the maintenance do    *)
(***************************************************************************)
\* longest list of peers passed
MaxPeers == 3
\* number of calls made in one behaviour
MaxRepl == 1

RECURSIVE SeqsUpTo(_, _)
\* the sequences over S of length at most k
SeqsUpTo(S, k) ==
  IF k = 0 THEN {<<>>}
  ELSE LET shorter == SeqsUpTo(S, k - 1)
       IN shorter \cup {Append(q, x) : q \in shorter, x \in S}

PeerLists == SeqsUpTo(PeerAddrs, MaxPeers)

\* node.replicate_to_peers_store(key, value, peers): successes = 0
ReplBegin(n, key, peers) ==
  /\ op[n].phase # "rpc"
  /\ ops < MaxRepl
  /\ ops' = ops + 1
  /\ op' = [op EXCEPT ![n] =
              [IdleOp EXCEPT !.kind = "store", !.phase = "rpc", !.key = key,
                             !.value = ValueOf[n], !.version = clock,
                             !.peers = peers]]
  /\ given' = [given EXCEPT ![n] = peers]
  /\ UNCHANGED <<storage, rt, metrics, clock>>
  /\ UNCHANGED <<poolVars, kbVars, rec, rpcVars, healthVars, table, appVars>>

\* the loop is over: successes is returned
ReplReturn(n) ==
  /\ op[n].kind = "store" /\ op[n].phase = "rpc" /\ op[n].peers = <<>>
  /\ op' = [op EXCEPT ![n].phase = "done", ![n].ok = TRUE]
  /\ UNCHANGED <<storage, rt, metrics, clock, ops, poolVars, nodeVars>>

ReplNext ==
  \/ \E n \in Nodes, key \in Keys, peers \in PeerLists : ReplBegin(n, key, peers)
  \/ \E n \in Nodes, outcome \in Outcomes, delivered \in BOOLEAN,
        policy \in Policies : StoreRpc(n, outcome, delivered, policy)
  \/ \E n \in Nodes : ReplReturn(n)
  \/ ClockTick

ReplSpec == Init /\ [][ReplNext]_vars

\* n is inside the loop of replicate_to_peers_store
InLoop(n) == op[n].kind = "store" /\ op[n].phase = "rpc"

\* the entries of the list the loop has dealt with so far
Attempted(n) == SubSeq(given[n], 1, Len(given[n]) - Len(op[n].peers))

\* how many entries of a list carry the address
CountOf(list, a) == Cardinality({i \in 1..Len(list) : list[i] = a})

\* C28: replicate_to_peers_store attempts every peer of the list exactly
\* once, in list order, whatever the outcome for the peers before; it sends
\* no Store RPC to a peer with the node's own address; the returned count is
\* the number of own-address peers plus the number of peers whose Store RPC
\* succeeded, at most the list length.
C28_EveryPeerAttemptedOnce ==
  /\ [](\A n \in Nodes :
          (op[n].kind = "store" /\ op[n].phase # "idle") =>
            /\ Len(op[n].peers) <= Len(given[n])
            /\ given[n] = Attempted(n) \o op[n].peers
            /\ op[n].successes >= CountOf(Attempted(n), n)
            /\ op[n].successes <= Len(Attempted(n))
            /\ op[n].successes <= Len(given[n])
            /\ op[n].phase = "done" => op[n].peers = <<>>)
  /\ [][ \A n \in Nodes :
           (InLoop(n) /\ op'[n] # op[n]) =>
             IF op[n].peers = <<>>
               THEN /\ op'[n].phase = "done"
                    /\ op'[n].successes = op[n].successes
                    /\ metrics' = metrics /\ storage' = storage
               ELSE /\ InLoop(n)'
                    /\ op'[n].peers = Tail(op[n].peers)
                    /\ IF Head(op[n].peers) = n
                         THEN /\ metrics'[n] = metrics[n]
                              /\ storage' = storage
                              /\ op'[n].successes = op[n].successes + 1
                         ELSE /\ metrics'[n].rpc_requests
                                   = metrics[n].rpc_requests + 1
                              /\ op'[n].successes =
                                   IF metrics'[n].rpc_failures
                                        = metrics[n].rpc_failures
                                     THEN op[n].successes + 1
                                     ELSE op[n].successes ]_vars

\* C28 witness: a call has returned 2 for a list of three peers in which the
\* first peer failed, the second is the node itself and the third succeeded
C28_Witness ==
  \E n \in Nodes : \E p \in PeerAddrs \ {n} : \E q \in PeerAddrs \ {n} :
    /\ op[n].kind = "store" /\ op[n].phase = "done"
    /\ given[n] = <<p, n, q>>
    /\ p \in op[n].failed /\ q \in op[n].acked /\ p # q
    /\ op[n].successes = 2

\* C29: in every reachable state metrics.rpc_failures <= metrics.rpc_requests
C29_FailuresAtMostRequestsAsClaimed ==
  \A n \in Nodes : metrics[n].rpc_failures <= metrics[n].rpc_requests

(***************************************************************************)
(* main.rs, app.rs: main spawns the task of DhtApp::run, sends commands on *)
(* the channel and aborts the task before it returns                       *)
(***************************************************************************)
\* commands typed in one interactive session
MaxCommands == 2
\* the node main builds
AppNode == "A"

\* AppCommand
AppCommands ==
  {[kind |-> k, key |-> key] : k \in {"Store", "Get"}, key \in Keys}
    \cup {[kind |-> "ListPeers", key |-> ""], [kind |-> "GetStats", key |-> ""]}

\* a line read in interactive mode that changes something
ExitLine == [kind |-> "exit", key |-> ""]
Lines == AppCommands \cup {ExitLine}

\* the commands sent so far
Sent == Len(chan) + Len(carried) + (IF cur = NoCommand THEN 0 ELSE 1)

\* the store and find_value calls among the commands carried out
NodeOps(cmds) ==
  Cardinality({i \in 1..Len(cmds) : cmds[i].kind \in {"Store", "Get"}})

\* Cli::parse(), DhtNode::new, mpsc::channel(32), tokio::spawn of the app task
MainStart(c) ==
  /\ mainPc = "start"
  /\ cliCmd' = c
  /\ mainPc' = IF c = None THEN "prompt" ELSE "send"
  /\ appPc' = "spawned"
  /\ UNCHANGED <<chan, cur, carried>>
  /\ UNCHANGED <<poolVars, dhtVars, kbVars, rec, rpcVars, healthVars, table, given>>

\* if let Some(command) = cli.command: command_sender.send(..).await?
MainSend ==
  /\ mainPc = "send"
  /\ \E c \in cliCmd : chan' = Append(chan, c)
  /\ mainPc' = "abort"
  /\ UNCHANGED <<cliCmd, appPc, cur, carried>>
  /\ UNCHANGED <<poolVars, dhtVars, kbVars, rec, rpcVars, healthVars, table, given>>

\* interactive mode: one line is read; a command is sent, exit leaves the loop
MainPrompt(line) ==
  /\ mainPc = "prompt"
  /\ IF line = ExitLine
       THEN /\ mainPc' = "abort"
            /\ UNCHANGED chan
       ELSE /\ Sent < MaxCommands
            /\ chan' = Append(chan, line)
            /\ UNCHANGED mainPc
  /\ UNCHANGED <<cliCmd, appPc, cur, carried>>
  /\ UNCHANGED <<poolVars, dhtVars, kbVars, rec, rpcVars, healthVars, table, given>>

\* app_handle.abort(); Ok(()): main returns and the runtime shuts down.  A
\* task suspended (or not yet polled) is dropped; a task being polled runs on
\* to its next suspension.
MainAbort ==
  /\ mainPc = "abort"
  /\ mainPc' = "exited"
  /\ appPc' = IF appPc = "handling" THEN appPc ELSE "aborted"
  /\ UNCHANGED <<cliCmd, chan, cur, carried>>
  /\ UNCHANGED <<poolVars, dhtVars, kbVars, rec, rpcVars, healthVars, table, given>>

\* the aborted task reaches a suspension point inside a handler and is dropped
AppDropped ==
  /\ mainPc = "exited"
  /\ appPc = "handling"
  /\ appPc' = "aborted"
  /\ UNCHANGED <<mainPc, cliCmd, chan, cur, carried>>
  /\ UNCHANGED <<poolVars, dhtVars, kbVars, rec, rpcVars, healthVars, table, given>>

\* DhtApp::run is polled for the first time: get_initial_peers() is None, no
\* bootstrap; the task reaches command_receiver.recv().await
AppRun ==
  /\ appPc = "spawned"
  /\ appPc' = "recv"
  /\ UNCHANGED <<mainPc, cliCmd, chan, cur, carried>>
  /\ UNCHANGED <<poolVars, dhtVars, kbVars, rec, rpcVars, healthVars, table, given>>

\* while let Some(cmd) = self.command_receiver.recv().await
AppRecv ==
  /\ appPc = "recv"
  /\ chan # <<>>
  /\ cur' = Head(chan)
  /\ chan' = Tail(chan)
  /\ appPc' = "handling"
  /\ UNCHANGED <<mainPc, cliCmd, carried>>
  /\ UNCHANGED <<poolVars, dhtVars, kbVars, rec, rpcVars, healthVars, table, given>>

\* the handler of cur has not called the node yet
NotBegun == ops = NodeOps(carried)

\* the node operation of the handler of cur has returned
Returned == ops = NodeOps(carried) + 1 /\ op[AppNode].phase = "done"

\* handle_store: self.node.store(key, value).await
AppStore ==
  /\ appPc = "handling" /\ cur.kind = "Store"
  /\ \/ NotBegun /\ \E policy \in Policies :
                      StoreBegin(AppNode, cur.key, ValueOf[AppNode], policy)
     \/ ~NotBegun /\ StoreFinish(AppNode)

\* handle_get: self.node.find_value(key).await
AppGet ==
  /\ appPc = "handling" /\ cur.kind = "Get"
  /\ \/ NotBegun /\ FindBegin(AppNode, cur.key)
     \/ ~NotBegun /\ \E i \in 0..ReplicationFactor : FindFinish(AppNode, i)

\* the handler returns (handle_list_peers and handle_get_stats only read the
\* node and print); the loop is back at recv, where an aborted task is dropped
AppHandled ==
  /\ appPc = "handling"
  /\ cur.kind \in {"Store", "Get"} => Returned
  /\ carried' = Append(carried, cur)
  /\ cur' = NoCommand
  /\ appPc' = IF mainPc = "exited" THEN "aborted" ELSE "recv"
  /\ UNCHANGED <<mainPc, cliCmd, chan>>
  /\ UNCHANGED <<poolVars, dhtVars, kbVars, rec, rpcVars, healthVars, table, given>>

AppNext ==
  \/ \E c \in {None} \cup {Some(x) : x \in AppCommands} : MainStart(c)
  \/ MainSend
  \/ \E line \in Lines : MainPrompt(line)
  \/ MainAbort
  \/ AppDropped
  \/ AppRun
  \/ AppRecv
  \/ AppStore
  \/ AppGet
  \/ AppHandled
  \/ ClockTick

AppSpec == Init /\ [][AppNext]_vars

\* C30: in subcommand mode the command main sends is received by DhtApp::run
\* and its node operation is carried out to completion before the app task
\* is aborted and the process exits
C30_CommandCarriedOutAsClaimed ==
  (mainPc = "exited" /\ cliCmd # None) =>
     \E c \in cliCmd : carried = <<c>>

====
